---- MODULE Spec2Model ----
(***************************************************************************)
(* Model of src/patch.py: a one-shot script that reads a source file,      *)
(* finds the first occurrence of a start anchor (old), finds the end       *)
(* marker from that offset on, splices a replacement block over the region *)
(* and writes the file back.                                               *)
(*                                                                         *)
(* A text is a sequence of Unicode code points (a Python str).  Offsets    *)
(* are 0-based as in Python; Slice(s, a, b) is the Python slice s[a:b].    *)
(***************************************************************************)
EXTENDS Integers, Sequences, FiniteSets, TLC

VARIABLES
  old,          \* the start anchor literal (line 5)
  endMarker,    \* the end marker literal (line 9)
  replacement,  \* the replacement block literal (line 12)
  file,         \* stored content of the artifact at `path`
  pc,           \* position of the running script
  text,         \* the script's variable `text`
  start,        \* the script's variable `start` (-2: not yet bound)
  end,          \* the script's variable `end`   (-2: not yet bound)
  exitCode,     \* process exit status (-1: still running)
  stderr,       \* diagnostic printed by SystemExit
  run,          \* number of the current invocation of the script
  fullText,     \* what read_text returned in the current invocation
  nwrites,      \* write_text calls made by the current invocation
  prev          \* outcome of the previous invocation

vars == <<old, endMarker, replacement, file, pc, text, start, end,
          exitCode, stderr, run, fullText, nwrites, prev>>

(***************************************************************************)
(* Bounds of the model.                                                    *)
(***************************************************************************)
\* invocations of the script, one after the other, on the same artifact
MaxRuns == 2
\* pieces an artifact text is assembled from under the script's literals
MaxPieces == 4
\* length of an artifact text under arbitrary literals
MaxTextLen == 4
\* length of an arbitrary start anchor / end marker / replacement block
MaxLitLen == 2

(***************************************************************************)
(* The script's three literals, as code points.                            *)
(***************************************************************************)
\* old = "        if (identitySafe) {"
ScriptOld ==
  <<
    32, 32, 32, 32, 32, 32, 32, 32, 105, 102, 32, 40, 105, 100, 101, 110, 116, 105, 116,
    121, 83, 97, 102, 101, 41, 32, 123
  >>

\* the literal passed to the second text.find: "\n        } else {"
ScriptEndMarker ==
  <<
    10, 32, 32, 32, 32, 32, 32, 32, 32, 125, 32, 101, 108, 115, 101, 32, 123
  >>

\* replacement = "        if (pixelCorrectionEnabled) {\n ... \n        }\n"
\* (40 lines, each ended by a line feed; U+2013 is the en dash of line 2)
ScriptReplacement ==
  <<
    \* if (pixelCorrectionEnabled) {
    32, 32, 32, 32, 32, 32, 32, 32, 105, 102, 32, 40, 112, 105, 120, 101, 108, 67, 111,
    114, 114, 101, 99, 116, 105, 111, 110, 69, 110, 97, 98, 108, 101, 100, 41, 32, 123,
    10,
    \* // DO NOT TOUCH U+2013 IDENTITY INVARIANT
    32, 32, 32, 32, 32, 32, 32, 32, 32, 32, 32, 32, 47, 47, 32, 68, 79, 32, 78, 79, 84,
    32, 84, 79, 85, 67, 72, 32, 8211, 32, 73, 68, 69, 78, 84, 73, 84, 89, 32, 73, 78,
    86, 65, 82, 73, 65, 78, 84, 10,
    \* // Eyes are read-only biometric pixels copied from Image 1.
    32, 32, 32, 32, 32, 32, 32, 32, 32, 32, 32, 32, 47, 47, 32, 69, 121, 101, 115, 32,
    97, 114, 101, 32, 114, 101, 97, 100, 45, 111, 110, 108, 121, 32, 98, 105, 111, 109,
    101, 116, 114, 105, 99, 32, 112, 105, 120, 101, 108, 115, 32, 99, 111, 112, 105,
    101, 100, 32, 102, 114, 111, 109, 32, 73, 109, 97, 103, 101, 32, 49, 46, 10,
    \* const eyeAuthorityRule = 'Eyes are read-only biometric pixels copied f
    32, 32, 32, 32, 32, 32, 32, 32, 32, 32, 32, 32, 99, 111, 110, 115, 116, 32, 101,
    121, 101, 65, 117, 116, 104, 111, 114, 105, 116, 121, 82, 117, 108, 101, 32, 61, 32,
    39, 69, 121, 101, 115, 32, 97, 114, 101, 32, 114, 101, 97, 100, 45, 111, 110, 108,
    121, 32, 98, 105, 111, 109, 101, 116, 114, 105, 99, 32, 112, 105, 120, 101, 108,
    115, 32, 99, 111, 112, 105, 101, 100, 32, 102, 114, 111, 109, 32, 73, 109, 97, 103,
    101, 32, 49, 46, 39, 10,
    \* console.log(`EYE AUTHORITY LOCK: ${eyeAuthorityRule}`)
    32, 32, 32, 32, 32, 32, 32, 32, 32, 32, 32, 32, 99, 111, 110, 115, 111, 108, 101,
    46, 108, 111, 103, 40, 96, 69, 89, 69, 32, 65, 85, 84, 72, 79, 82, 73, 84, 89, 32,
    76, 79, 67, 75, 58, 32, 36, 123, 101, 121, 101, 65, 117, 116, 104, 111, 114, 105,
    116, 121, 82, 117, 108, 101, 125, 96, 41, 10,
    \* eyePixelData = await extractEyeRegionPixels(originalImageBuffer)
    32, 32, 32, 32, 32, 32, 32, 32, 32, 32, 32, 32, 101, 121, 101, 80, 105, 120, 101,
    108, 68, 97, 116, 97, 32, 61, 32, 97, 119, 97, 105, 116, 32, 101, 120, 116, 114, 97,
    99, 116, 69, 121, 101, 82, 101, 103, 105, 111, 110, 80, 105, 120, 101, 108, 115, 40,
    111, 114, 105, 103, 105, 110, 97, 108, 73, 109, 97, 103, 101, 66, 117, 102, 102,
    101, 114, 41, 10,
    \* if (!eyePixelData) {
    32, 32, 32, 32, 32, 32, 32, 32, 32, 32, 32, 32, 105, 102, 32, 40, 33, 101, 121, 101,
    80, 105, 120, 101, 108, 68, 97, 116, 97, 41, 32, 123, 10,
    \* stages.push({
    32, 32, 32, 32, 32, 32, 32, 32, 32, 32, 32, 32, 32, 32, 32, 32, 115, 116, 97, 103,
    101, 115, 46, 112, 117, 115, 104, 40, 123, 10,
    \* stage: 1,
    32, 32, 32, 32, 32, 32, 32, 32, 32, 32, 32, 32, 32, 32, 32, 32, 32, 32, 32, 32, 115,
    116, 97, 103, 101, 58, 32, 49, 44, 10,
    \* name: 'Face Pixel Extraction',
    32, 32, 32, 32, 32, 32, 32, 32, 32, 32, 32, 32, 32, 32, 32, 32, 32, 32, 32, 32, 110,
    97, 109, 101, 58, 32, 39, 70, 97, 99, 101, 32, 80, 105, 120, 101, 108, 32, 69, 120,
    116, 114, 97, 99, 116, 105, 111, 110, 39, 44, 10,
    \* status: 'FAIL',
    32, 32, 32, 32, 32, 32, 32, 32, 32, 32, 32, 32, 32, 32, 32, 32, 32, 32, 32, 32, 115,
    116, 97, 116, 117, 115, 58, 32, 39, 70, 65, 73, 76, 39, 44, 10,
    \* timeMs: Date.now() - stage1Start,
    32, 32, 32, 32, 32, 32, 32, 32, 32, 32, 32, 32, 32, 32, 32, 32, 32, 32, 32, 32, 116,
    105, 109, 101, 77, 115, 58, 32, 68, 97, 116, 101, 46, 110, 111, 119, 40, 41, 32, 45,
    32, 115, 116, 97, 103, 101, 49, 83, 116, 97, 114, 116, 44, 10,
    \* data: { error: 'Eye-region extraction failed' }
    32, 32, 32, 32, 32, 32, 32, 32, 32, 32, 32, 32, 32, 32, 32, 32, 32, 32, 32, 32, 100,
    97, 116, 97, 58, 32, 123, 32, 101, 114, 114, 111, 114, 58, 32, 39, 69, 121, 101, 45,
    114, 101, 103, 105, 111, 110, 32, 101, 120, 116, 114, 97, 99, 116, 105, 111, 110,
    32, 102, 97, 105, 108, 101, 100, 39, 32, 125, 10,
    \* })
    32, 32, 32, 32, 32, 32, 32, 32, 32, 32, 32, 32, 32, 32, 32, 32, 125, 41, 10,
    \* 
    10,
    \* return {
    32, 32, 32, 32, 32, 32, 32, 32, 32, 32, 32, 32, 32, 32, 32, 32, 114, 101, 116, 117,
    114, 110, 32, 123, 10,
    \* success: false,
    32, 32, 32, 32, 32, 32, 32, 32, 32, 32, 32, 32, 32, 32, 32, 32, 32, 32, 32, 32, 115,
    117, 99, 99, 101, 115, 115, 58, 32, 102, 97, 108, 115, 101, 44, 10,
    \* image: '',
    32, 32, 32, 32, 32, 32, 32, 32, 32, 32, 32, 32, 32, 32, 32, 32, 32, 32, 32, 32, 105,
    109, 97, 103, 101, 58, 32, 39, 39, 44, 10,
    \* status: 'FAIL',
    32, 32, 32, 32, 32, 32, 32, 32, 32, 32, 32, 32, 32, 32, 32, 32, 32, 32, 32, 32, 115,
    116, 97, 116, 117, 115, 58, 32, 39, 70, 65, 73, 76, 39, 44, 10,
    \* warnings: ['Eye-region lock failed. Please use an image with clear vis
    32, 32, 32, 32, 32, 32, 32, 32, 32, 32, 32, 32, 32, 32, 32, 32, 32, 32, 32, 32, 119,
    97, 114, 110, 105, 110, 103, 115, 58, 32, 91, 39, 69, 121, 101, 45, 114, 101, 103,
    105, 111, 110, 32, 108, 111, 99, 107, 32, 102, 97, 105, 108, 101, 100, 46, 32, 80,
    108, 101, 97, 115, 101, 32, 117, 115, 101, 32, 97, 110, 32, 105, 109, 97, 103, 101,
    32, 119, 105, 116, 104, 32, 99, 108, 101, 97, 114, 32, 118, 105, 115, 105, 98, 108,
    101, 32, 101, 121, 101, 115, 46, 39, 93, 44, 10,
    \* debug: { stages, totalTimeMs: Date.now() - startTime, faceOverwritten:
    32, 32, 32, 32, 32, 32, 32, 32, 32, 32, 32, 32, 32, 32, 32, 32, 32, 32, 32, 32, 100,
    101, 98, 117, 103, 58, 32, 123, 32, 115, 116, 97, 103, 101, 115, 44, 32, 116, 111,
    116, 97, 108, 84, 105, 109, 101, 77, 115, 58, 32, 68, 97, 116, 101, 46, 110, 111,
    119, 40, 41, 32, 45, 32, 115, 116, 97, 114, 116, 84, 105, 109, 101, 44, 32, 102, 97,
    99, 101, 79, 118, 101, 114, 119, 114, 105, 116, 116, 101, 110, 58, 32, 102, 97, 108,
    115, 101, 32, 125, 10,
    \* }
    32, 32, 32, 32, 32, 32, 32, 32, 32, 32, 32, 32, 32, 32, 32, 32, 125, 10,
    \* }
    32, 32, 32, 32, 32, 32, 32, 32, 32, 32, 32, 32, 125, 10,
    \* 
    10,
    \* stages.push({
    32, 32, 32, 32, 32, 32, 32, 32, 32, 32, 32, 32, 115, 116, 97, 103, 101, 115, 46,
    112, 117, 115, 104, 40, 123, 10,
    \* stage: 1,
    32, 32, 32, 32, 32, 32, 32, 32, 32, 32, 32, 32, 32, 32, 32, 32, 115, 116, 97, 103,
    101, 58, 32, 49, 44, 10,
    \* name: 'Face Pixel Extraction',
    32, 32, 32, 32, 32, 32, 32, 32, 32, 32, 32, 32, 32, 32, 32, 32, 110, 97, 109, 101,
    58, 32, 39, 70, 97, 99, 101, 32, 80, 105, 120, 101, 108, 32, 69, 120, 116, 114, 97,
    99, 116, 105, 111, 110, 39, 44, 10,
    \* status: 'PASS',
    32, 32, 32, 32, 32, 32, 32, 32, 32, 32, 32, 32, 32, 32, 32, 32, 115, 116, 97, 116,
    117, 115, 58, 32, 39, 80, 65, 83, 83, 39, 44, 10,
    \* timeMs: Date.now() - stage1Start,
    32, 32, 32, 32, 32, 32, 32, 32, 32, 32, 32, 32, 32, 32, 32, 32, 116, 105, 109, 101,
    77, 115, 58, 32, 68, 97, 116, 101, 46, 110, 111, 119, 40, 41, 32, 45, 32, 115, 116,
    97, 103, 101, 49, 83, 116, 97, 114, 116, 44, 10,
    \* data: { eyeBox: eyePixelData.box, mode: 'identitySafe-eye-lock' }
    32, 32, 32, 32, 32, 32, 32, 32, 32, 32, 32, 32, 32, 32, 32, 32, 100, 97, 116, 97,
    58, 32, 123, 32, 101, 121, 101, 66, 111, 120, 58, 32, 101, 121, 101, 80, 105, 120,
    101, 108, 68, 97, 116, 97, 46, 98, 111, 120, 44, 32, 109, 111, 100, 101, 58, 32, 39,
    105, 100, 101, 110, 116, 105, 116, 121, 83, 97, 102, 101, 45, 101, 121, 101, 45,
    108, 111, 99, 107, 39, 32, 125, 10,
    \* })
    32, 32, 32, 32, 32, 32, 32, 32, 32, 32, 32, 32, 125, 41, 10,
    \* } else if (identitySafe) {
    32, 32, 32, 32, 32, 32, 32, 32, 125, 32, 101, 108, 115, 101, 32, 105, 102, 32, 40,
    105, 100, 101, 110, 116, 105, 116, 121, 83, 97, 102, 101, 41, 32, 123, 10,
    \* stages.push({
    32, 32, 32, 32, 32, 32, 32, 32, 32, 32, 32, 32, 115, 116, 97, 103, 101, 115, 46,
    112, 117, 115, 104, 40, 123, 10,
    \* stage: 1,
    32, 32, 32, 32, 32, 32, 32, 32, 32, 32, 32, 32, 32, 32, 32, 32, 115, 116, 97, 103,
    101, 58, 32, 49, 44, 10,
    \* name: 'Face Pixel Extraction',
    32, 32, 32, 32, 32, 32, 32, 32, 32, 32, 32, 32, 32, 32, 32, 32, 110, 97, 109, 101,
    58, 32, 39, 70, 97, 99, 101, 32, 80, 105, 120, 101, 108, 32, 69, 120, 116, 114, 97,
    99, 116, 105, 111, 110, 39, 44, 10,
    \* status: 'SKIP',
    32, 32, 32, 32, 32, 32, 32, 32, 32, 32, 32, 32, 32, 32, 32, 32, 115, 116, 97, 116,
    117, 115, 58, 32, 39, 83, 75, 73, 80, 39, 44, 10,
    \* timeMs: Date.now() - stage1Start,
    32, 32, 32, 32, 32, 32, 32, 32, 32, 32, 32, 32, 32, 32, 32, 32, 116, 105, 109, 101,
    77, 115, 58, 32, 68, 97, 116, 101, 46, 110, 111, 119, 40, 41, 32, 45, 32, 115, 116,
    97, 103, 101, 49, 83, 116, 97, 114, 116, 44, 10,
    \* data: { reason: 'pixel correction disabled for nano-banana-pro' }
    32, 32, 32, 32, 32, 32, 32, 32, 32, 32, 32, 32, 32, 32, 32, 32, 100, 97, 116, 97,
    58, 32, 123, 32, 114, 101, 97, 115, 111, 110, 58, 32, 39, 112, 105, 120, 101, 108,
    32, 99, 111, 114, 114, 101, 99, 116, 105, 111, 110, 32, 100, 105, 115, 97, 98, 108,
    101, 100, 32, 102, 111, 114, 32, 110, 97, 110, 111, 45, 98, 97, 110, 97, 110, 97,
    45, 112, 114, 111, 39, 32, 125, 10,
    \* })
    32, 32, 32, 32, 32, 32, 32, 32, 32, 32, 32, 32, 125, 41, 10,
    \* }
    32, 32, 32, 32, 32, 32, 32, 32, 125, 10
  >>

(***************************************************************************)
(* str.find and slicing.                                                   *)
(***************************************************************************)
\* offsets at which sub occurs in s
Occ(s, sub) ==
  {i \in 0..(Len(s) - Len(sub)) :
     \A k \in 1..Len(sub) : s[i + k] = sub[k]}

Min(S) == CHOOSE m \in S : \A n \in S : m <= n

Max(S) == CHOOSE m \in S : \A n \in S : n <= m

\* variant of Find (s.rfind): the highest offset instead of the lowest
FindLast(s, sub, from) ==
  LET hits == {i \in Occ(s, sub) : i >= from}
  IN  IF hits = {} THEN -1 ELSE Max(hits)

\* s.find(sub, from): the lowest offset >= from at which sub occurs, or -1
Find(s, sub, from) ==
  LET hits == {i \in Occ(s, sub) : i >= from}
  IN  IF hits = {} THEN -1 ELSE Min(hits)

\* variant of StartOf: the last occurrence of the anchor
StartOfLast(t) == FindLast(t, old, 0)

\* text.find(old)
StartOf(t) == Find(t, old, 0)

\* variant of EndOf: the search ignores start
EndOfFromZero(t, s) == Find(t, endMarker, 0)

\* variant of EndOf: the search begins strictly after start
EndOfAfter(t, s) == Find(t, endMarker, s + 1)

\* text.find('\n        } else {', start)
EndOf(t, s) == Find(t, endMarker, s)

\* s[a:b] for 0 <= a, 0 <= b: the bounds are clamped to the length of s
Slice(s, a, b) ==
  LET hi == IF b < Len(s) THEN b ELSE Len(s)
  IN  IF a >= hi THEN <<>> ELSE SubSeq(s, a + 1, hi)

\* variant of Splice: text[end:], the marker's first character kept
SpliceFromEnd(t, s, e, r) ==
  Slice(t, 0, s) \o r \o Slice(t, e, Len(t))

\* variant of Splice: text[end+2:], one character more dropped
SplicePastEnd(t, s, e, r) ==
  Slice(t, 0, s) \o r \o Slice(t, e + 2, Len(t))

\* variant of Splice: the region begins after the anchor occurrence
SpliceKeepAnchor(t, s, e, r) ==
  Slice(t, 0, s + Len(old)) \o r \o Slice(t, e + 1, Len(t))

\* variant of Splice: text[start:], the block inserted and nothing removed
SpliceInsert(t, s, e, r) ==
  Slice(t, 0, s) \o r \o Slice(t, s, Len(t))

\* text[:start] + replacement + text[end+1:]
Splice(t, s, e, r) ==
  Slice(t, 0, s) \o r \o Slice(t, e + 1, Len(t))

(***************************************************************************)
(* Initial states.                                                         *)
(***************************************************************************)
NoRun ==
  [exitCode |-> -1, stderr |-> "", fullText |-> <<>>, file |-> <<>>, start |-> -2]

Fresh ==
  /\ pc = "read"
  /\ text = <<>>
  /\ start = -2
  /\ end = -2
  /\ exitCode = -1
  /\ stderr = ""
  /\ run = 1
  /\ fullText = <<>>
  /\ nwrites = 0
  /\ prev = NoRun

\* Artifact texts for the script's literals: concatenations of the anchor,
\* the end marker, near misses of both, and single characters.
Pieces ==
  { ScriptOld,
    ScriptEndMarker,
    Tail(ScriptOld),                                    \* anchor less its first space
    SubSeq(ScriptEndMarker, 1, Len(ScriptEndMarker) - 1), \* marker less its "{"
    <<32>>,                                             \* " "
    <<10>> }                                            \* "\n"

RECURSIVE Concats(_)
Concats(n) ==
  IF n = 0 THEN {<<>>}
  ELSE LET shorter == Concats(n - 1)
       IN  shorter \cup {t \o p : t \in shorter, p \in Pieces}

\* the script as written: its literals are fixed, the artifact is any file
Init ==
  /\ old = ScriptOld
  /\ endMarker = ScriptEndMarker
  /\ replacement = ScriptReplacement
  /\ file \in Concats(MaxPieces)
  /\ Fresh

\* Lines 6-13 as a function of four inputs: arbitrary literals over a
\* two-letter alphabet ("a", "b"), plus the quadruple of the worked example.
Alphabet == {97, 98}

Strs(lo, hi) == UNION {[1..k -> Alphabet] : k \in lo..hi}

\* "abc<<START>>old<<END>>xyz"
ExampleText ==
  << 97, 98, 99, 60, 60, 83, 84, 65, 82, 84, 62, 62, 111, 108, 100, 60, 60, 69, 78, 68,
     62, 62, 120, 121, 122 >>

\* "<<START>>"
ExampleAnchor == << 60, 60, 83, 84, 65, 82, 84, 62, 62 >>

\* "<<END>>"
ExampleMarker == << 60, 60, 69, 78, 68, 62, 62 >>

\* "new"
ExampleReplacement == << 110, 101, 119 >>

InitReplace ==
  /\ \/ /\ file = ExampleText
        /\ old = ExampleAnchor
        /\ endMarker = ExampleMarker
        /\ replacement = ExampleReplacement
     \/ /\ file \in Strs(0, MaxTextLen)
        /\ old \in Strs(1, MaxLitLen)
        /\ endMarker \in Strs(1, MaxLitLen)
        /\ replacement \in Strs(0, MaxLitLen)
  /\ Fresh

(***************************************************************************)
(* The script, statement by statement.                                     *)
(***************************************************************************)
Outcome(code, msg) ==
  [exitCode |-> code, stderr |-> msg, fullText |-> fullText, file |-> file,
   start |-> start]

\* line 4: text = path.read_text(encoding='utf-8')
ReadText ==
  /\ pc = "read"
  /\ text' = file
  /\ fullText' = file
  /\ pc' = "find_start"
  /\ UNCHANGED <<old, endMarker, replacement, file, start, end, exitCode,
                 stderr, run, nwrites, prev>>

\* lines 6-8: start = text.find(old); raise SystemExit('marker not found')
FindStart ==
  /\ pc = "find_start"
  /\ start' = StartOf(text)
  /\ IF start' = -1
       THEN /\ pc' = "exited"
            /\ exitCode' = 1
            /\ stderr' = "marker not found"
       ELSE /\ pc' = "find_end"
            /\ UNCHANGED <<exitCode, stderr>>
  /\ UNCHANGED <<old, endMarker, replacement, file, text, end, run,
                 fullText, nwrites, prev>>

\* variant of FindEnd: the `if end == -1` check is missing
FindEndNoCheck ==
  /\ pc = "find_end"
  /\ end' = EndOf(text, start)
  /\ pc' = "splice"
  /\ UNCHANGED <<old, endMarker, replacement, file, text, start, exitCode,
                 stderr, run, fullText, nwrites, prev>>

\* lines 9-11: end = text.find(..., start); raise SystemExit('end marker not found')
FindEnd ==
  /\ pc = "find_end"
  /\ end' = EndOf(text, start)
  /\ IF end' = -1
       THEN /\ pc' = "exited"
            /\ exitCode' = 1
            /\ stderr' = "end marker not found"
       ELSE /\ pc' = "splice"
            /\ UNCHANGED <<exitCode, stderr>>
  /\ UNCHANGED <<old, endMarker, replacement, file, text, start, run,
                 fullText, nwrites, prev>>

\* lines 12-13: text = text[:start] + replacement + text[end+1:]
SpliceText ==
  /\ pc = "splice"
  /\ text' = Splice(text, start, end, replacement)
  /\ pc' = "write"
  /\ UNCHANGED <<old, endMarker, replacement, file, start, end, exitCode,
                 stderr, run, fullText, nwrites, prev>>

\* line 14: path.write_text(text, encoding='utf-8')
WriteText ==
  /\ pc = "write"
  /\ file' = text
  /\ nwrites' = nwrites + 1
  /\ pc' = "eof"
  /\ UNCHANGED <<old, endMarker, replacement, text, start, end, exitCode,
                 stderr, run, fullText, prev>>

\* end of the script: the interpreter exits with status 0
Finish ==
  /\ pc = "eof"
  /\ pc' = "exited"
  /\ exitCode' = 0
  /\ UNCHANGED <<old, endMarker, replacement, file, text, start, end,
                 stderr, run, fullText, nwrites, prev>>

\* the script is invoked again, as a new process, on the artifact as it now is
Rerun ==
  /\ pc = "exited"
  /\ run < MaxRuns
  /\ prev' = Outcome(exitCode, stderr)
  /\ run' = run + 1
  /\ pc' = "read"
  /\ text' = <<>>
  /\ start' = -2
  /\ end' = -2
  /\ exitCode' = -1
  /\ stderr' = ""
  /\ fullText' = <<>>
  /\ nwrites' = 0
  /\ UNCHANGED <<old, endMarker, replacement, file>>

Next ==
  \/ ReadText
  \/ FindStart
  \/ FindEnd
  \/ SpliceText
  \/ WriteText
  \/ Finish
  \/ Rerun

Spec == Init /\ [][Next]_vars

SpecReplace == InitReplace /\ [][Next]_vars

(***************************************************************************)
(* Properties.                                                             *)
(***************************************************************************)
Succeeded == pc = "exited" /\ exitCode = 0

Failed == pc = "exited" /\ exitCode = 1

\* "abc<<START>>new<<END>>xyz"
ExampleExpected ==
  << 97, 98, 99, 60, 60, 83, 84, 65, 82, 84, 62, 62, 110, 101, 119, 60, 60, 69, 78, 68,
     62, 62, 120, 121, 122 >>

\* "abcnew<END>>xyz"
ExampleActual ==
  << 97, 98, 99, 110, 101, 119, 60, 69, 78, 68, 62, 62, 120, 121, 122 >>

IsExample ==
  /\ fullText = ExampleText
  /\ old = ExampleAnchor
  /\ endMarker = ExampleMarker
  /\ replacement = ExampleReplacement

\* C1, as claimed: on success the written text is
\* fullText[0..start) + replacement + fullText[end..), the end marker's first
\* character included.
C1_OutputKeepsFromEnd ==
  Succeeded =>
    file = Slice(fullText, 0, start) \o replacement
             \o Slice(fullText, end, Len(fullText))

\* C1, amended: on success the written text is
\* fullText[0..start) + replacement + fullText[end+1..): every character before
\* start and every character after end is kept in order, the replacement sits
\* between them, and the character at end (the marker's first) is dropped.
C1_OutputKeepsAfterEnd ==
  Succeeded =>
    LET n == Len(replacement)
    IN  /\ Len(file) = start + n + (Len(fullText) - end - 1)
        /\ \A i \in 1..start : file[i] = fullText[i]
        /\ \A j \in 1..n : file[start + j] = replacement[j]
        /\ \A i \in (end + 2)..Len(fullText) :
             file[start + n + i - end - 1] = fullText[i]

C1_Witness ==
  /\ Succeeded
  /\ start > 0
  /\ end > start
  /\ end + 1 < Len(fullText)
  /\ replacement # <<>>

\* C2, as claimed: on success the complete end marker stands in the output at
\* offset start + Len(replacement), followed by the text that came after it.
C2_MarkerWholeAfterBlock ==
  Succeeded =>
    LET p == start + Len(replacement)
        m == Len(endMarker)
    IN  /\ Slice(file, p, p + m) = endMarker
        /\ Slice(file, p + m, Len(file))
             = Slice(fullText, end + m, Len(fullText))

\* C2, amended: on success the end marker less its first character stands in
\* the output at offset start + Len(replacement), followed by the text that
\* came after the marker; the marker's first character is consumed.
C2_MarkerTailAfterBlock ==
  Succeeded =>
    LET p == start + Len(replacement)
        m == Len(endMarker)
    IN  /\ Slice(file, p, p + m - 1) = Tail(endMarker)
        /\ Slice(file, p + m - 1, Len(file))
             = Slice(fullText, end + m, Len(fullText))
        /\ Len(file) = p + Len(fullText) - end - 1

C2_Witness ==
  /\ Succeeded
  /\ Len(endMarker) >= 2
  /\ end + Len(endMarker) < Len(fullText)
  /\ Slice(file, start + Len(replacement), Len(file)) = Slice(fullText, end + 1, Len(fullText))

\* C3: the text read decides the outcome: no anchor -> exit 1 with
\* 'marker not found'; anchor but no end marker at or after it -> exit 1 with
\* 'end marker not found'; otherwise exit 0 with no diagnostic.
C3_OutcomeByText ==
  pc = "exited" =>
    LET anchors == Occ(fullText, old)
        markers == Occ(fullText, endMarker)
    IN  /\ anchors = {} =>
             exitCode = 1 /\ stderr = "marker not found"
        /\ (anchors # {} /\ \A o \in markers : o < Min(anchors)) =>
             exitCode = 1 /\ stderr = "end marker not found"
        /\ (anchors # {} /\ \E o \in markers : o >= Min(anchors)) =>
             exitCode = 0 /\ stderr = ""

C3_Witness ==
  /\ Failed
  /\ stderr = "end marker not found"
  /\ Occ(fullText, old) # {}
  /\ Occ(fullText, endMarker) # {}

\* C4: an invocation writes the artifact at most once and only after both
\* literals were located; the artifact is as read until then and after either
\* failure; after success the whole rewritten text has been written.
C4_WriteOnceAfterChecks ==
  /\ nwrites <= 1
  /\ nwrites = 1 =>
       start \in Occ(fullText, old) /\ end \in Occ(fullText, endMarker)
  /\ (nwrites = 0 /\ pc # "read") => file = fullText
  /\ Failed => nwrites = 0 /\ file = fullText
  /\ Succeeded => nwrites = 1 /\ file = text

C4_Witness ==
  /\ Succeeded
  /\ nwrites = 1
  /\ file # fullText

\* C5: when the anchor occurs at several offsets the region starts at the
\* smallest, o1: the output begins with fullText[0..o1) followed by the
\* replacement.
C5_FirstAnchorWins ==
  Succeeded =>
    LET o1 == Min(Occ(fullText, old))
    IN  /\ start = o1
        /\ Slice(file, 0, o1) = Slice(fullText, 0, o1)
        /\ Slice(file, o1, o1 + Len(replacement)) = replacement

C5_Witness ==
  /\ Succeeded
  /\ Cardinality(Occ(fullText, old)) >= 2
  /\ replacement # <<>>

C7_ExampleKeepsAnchor ==
  (IsExample /\ pc = "exited") => exitCode = 0 /\ file = ExampleExpected

\* C7, amended: the worked example yields "abcnew<END>>xyz": the anchor is
\* replaced with the region and the marker's first character is dropped.
C7_ExampleResult ==
  (IsExample /\ pc = "exited") => exitCode = 0 /\ file = ExampleActual

C7_Witness == IsExample /\ Succeeded

AfterSuccessOnSingleAnchor ==
  /\ run >= 2
  /\ pc = "exited"
  /\ prev.exitCode = 0
  /\ Cardinality(Occ(prev.fullText, old)) = 1
  /\ Occ(replacement, old) = {}

C10_EndPastAnchor ==
  (Succeeded /\ old = ScriptOld /\ endMarker = ScriptEndMarker) =>
    /\ end >= start + Len(old)
    /\ Slice(fullText, start, start + Len(old)) = old
    /\ Slice(fullText, end, end + Len(endMarker)) = endMarker

C10_Witness ==
  /\ Succeeded
  /\ old = ScriptOld
  /\ endMarker = ScriptEndMarker
  /\ end = start + Len(old)

====
